---- MODULE Spec2Model ----
(***************************************************************************)
(* Backend process supervision of the XFactor Bot desktop shell            *)
(* (desktop/src-tauri/src/lib.rs), unix build.                             *)
(*                                                                         *)
(* BackendState is the shared state; the Tauri commands run as concurrent  *)
(* asynchronous tasks, the window / tray / menu handlers run one at a time *)
(* on the event thread, and the automatic startup task runs once.          *)
(* Every statement that reads or writes shared state, takes the mutex,     *)
(* probes the port, spawns or signals is one step, so that the steps of    *)
(* different tasks interleave as the code allows.                          *)
(***************************************************************************)
EXTENDS Integers, Sequences, FiniteSets, TLC

\* Bounds of the model.
MaxProcs == 2      \* processes that can exist over a run (spawned + external)
MaxCalls == 2      \* commands invoked and events handled over a run
MaxFiles == 2      \* candidate paths present on the disk the search looks at

\* Option::None of the tracked slot, and the initial backend_pid.
None == 0

Callers == {"c1", "c2"}                 \* concurrent command invocations
Startup == "startup"                    \* the automatic startup task
Ui      == "ui"                         \* the event thread
Threads == Callers \cup {Startup, Ui}

\* Operations that run graceful_kill_backend.
ShutdownOps == {"stop_backend", "force_cleanup", "close_requested",
                "destroyed", "tray_quit"}
\* Launch paths.
LaunchOps == {"start_backend", "startup"}

\* What a launch path can log, and what a shutdown path can log.
LaunchKinds == {"spawn", "store_handle", "store_pid"}
KillKinds   == {"handle_kill", "sigterm", "sigkill", "sweep"}

VARIABLES
    child,             \* BackendState.child: None or the handle (pid) of the sidecar
    backend_pid,       \* BackendState.backend_pid
    is_shutting_down,  \* BackendState.is_shutting_down
    lock,              \* holder of the child mutex, or "free"
    procs,             \* the operating system's processes, indexed by pid
    pc,                \* position of each thread
    op,                \* operation each thread runs (or ran last)
    local,             \* a thread's local: the pid it loaded, or the handle it spawned
    result,            \* value the thread's last command returned
    backend_path,      \* the startup task's backend_path: << >> (None) or <<path>> (Some)
    dirs,              \* which directory lookups of the path resolver succeed
    files,             \* the candidate paths that exist on disk
    calls,             \* commands invoked and events handled so far
    window,            \* the main window: "open", "closing", "destroyed"
    exited,            \* the application process has exited
    log,               \* history: every launch / kill event with the flag's value then
    trace,             \* history: the steps of the shutdown operation a thread runs
    gkDone             \* history: graceful_kill_backend has completed at least once

vars == <<child, backend_pid, is_shutting_down, lock, procs, pc, op, local,
          result, backend_path, dirs, files, calls, window, exited, log, trace, gkDone>>

sup   == <<child, backend_pid, is_shutting_down>>
hist  == <<log, trace, gkDone>>
uiv   == <<window, exited>>
fsv   == <<backend_path, dirs, files>>

-----------------------------------------------------------------------------
\* The candidate search of the startup task.

\* Binary names to try, in order of preference.
binary_names == <<"xfactor-backend",
                  "xfactor-backend-x86_64-apple-darwin",
                  "xfactor-backend-aarch64-apple-darwin",
                  "xfactor-backend-x86_64-unknown-linux-gnu",
                  "xfactor-backend-x86_64-pc-windows-msvc.exe">>

\* The directories candidates are looked for in.
SearchDirs == {"MacOS", "resource_dir", "resource_dir/binaries",
               "app_data_dir", "exe_dir", "exe_dir/binaries"}

\* dir.join(name)
Join(dir, name) == [dir |-> dir, name |-> name]

AllPaths == {Join(d, binary_names[i]) : d \in SearchDirs,
                                          i \in 1..Len(binary_names)}

\* Outcomes of the lookups: resource_dir() is Ok, resource_dir.parent() is
\* Some, app_data_dir() is Ok, current_exe() is Ok, exe_path.parent() is Some.
DirStates == [resource_dir : BOOLEAN, resource_parent : BOOLEAN,
              app_data_dir : BOOLEAN, current_exe : BOOLEAN,
              exe_parent : BOOLEAN]

AllDirs == [resource_dir |-> TRUE, resource_parent |-> TRUE,
            app_data_dir |-> TRUE, current_exe |-> TRUE, exe_parent |-> TRUE]

\* for name in &binary_names { candidates.push(dir.join(name)) }
Under(dir) == [i \in 1..Len(binary_names) |-> Join(dir, binary_names[i])]

\* Candidates as a search that gives up when a lookup fails: a directory that
\* cannot be resolved leaves no candidate at all.
Candidates_AbortOnFailedLookup(d) ==
    IF d = AllDirs
    THEN Under("MacOS") \o Under("resource_dir") \o Under("resource_dir/binaries")
         \o Under("app_data_dir") \o Under("exe_dir") \o Under("exe_dir/binaries")
    ELSE << >>

\* The candidates vector, in push order.
Candidates(d) ==
    LET macos    == IF d.resource_parent THEN Under("MacOS") ELSE << >>
        resource == IF d.resource_dir
                    THEN macos \o Under("resource_dir")
                               \o Under("resource_dir/binaries")
                    ELSE << >>
        app_data == IF d.app_data_dir THEN Under("app_data_dir") ELSE << >>
        exe      == IF d.current_exe /\ d.exe_parent
                    THEN Under("exe_dir") \o Under("exe_dir/binaries")
                    ELSE << >>
    IN  resource \o app_data \o exe

\* candidates.into_iter().find(|p| p.exists())
RECURSIVE find(_, _)
find(cands, existing) ==
    IF cands = << >> THEN << >>
    ELSE IF Head(cands) \in existing THEN <<Head(cands)>>
    ELSE find(Tail(cands), existing)

\* The disks with at most n candidate paths present.
RECURSIVE Disks(_)
Disks(n) ==
    IF n = 0 THEN {{}}
    ELSE LET D == Disks(n - 1) IN D \cup {S \cup {p} : S \in D, p \in AllPaths}

\* What the startup task finds installed when the supervisor runs: nothing,
\* or the binary bundled next to the executable.
Installations == {{}, {Join("MacOS", binary_names[1])}}

-----------------------------------------------------------------------------
\* Processes

Pids == 1..Len(procs)

Proc(kind, listening) == [kind |-> kind, alive |-> TRUE, listening |-> listening]

Alive(p) == p \in Pids /\ procs[p].alive

\* The process table after every pid of S received a signal that ends it.
Killed(ps, S) ==
    [p \in 1..Len(ps) |->
        IF p \in S THEN [ps[p] EXCEPT !.alive = FALSE, !.listening = FALSE]
        ELSE ps[p]]

\* Processes launched by this shell.
Launched == {p \in Pids : procs[p].kind # "external"}

Logged(by, what) ==
    log \cup {[by |-> by, what |-> what, flag |-> is_shutting_down]}

Upd(f, t, v) == [f EXCEPT ![t] = v]

\* is_backend_running: a TCP connection to 127.0.0.1:9876 succeeds.
is_backend_running == \E p \in Pids : procs[p].alive /\ procs[p].listening

Running == ~exited

\* A command invocation runs as a task of its own; it takes the first task
\* slot that is free.
CanCall(t) ==
    /\ Running /\ t \in Callers /\ pc[t] = "idle" /\ calls < MaxCalls
    /\ \A u \in Callers : (u # t /\ pc[u] = "idle") => t = "c1"

-----------------------------------------------------------------------------
\* The state the setup hook leaves, before the startup task has looked at the
\* disk.
Boot ==
    /\ child = None
    /\ backend_pid = 0
    /\ is_shutting_down = FALSE
    /\ lock = "free"
    /\ procs \in {<< >>, <<Proc("external", TRUE)>>}
    /\ pc = [t \in Threads |-> IF t = Startup THEN "st_locate" ELSE "idle"]
    /\ op = [t \in Threads |-> IF t = Startup THEN "startup" ELSE "none"]
    /\ local = [t \in Threads |-> 0]
    /\ result = [t \in Threads |-> "none"]
    /\ backend_path = << >>
    /\ calls = 0
    /\ window = "open"
    /\ exited = FALSE
    /\ log = {}
    /\ trace = [t \in Threads |-> << >>]
    /\ gkDone = FALSE

Init == Boot /\ dirs = AllDirs /\ files = {}

-----------------------------------------------------------------------------
\* start_backend (command)

\* The frontend invokes the command.
StartBackend(t) ==
    /\ CanCall(t)
    /\ calls' = calls + 1
    /\ op' = Upd(op, t, "start_backend")
    /\ result' = Upd(result, t, "pending")
    /\ pc' = Upd(pc, t, "sb_flag")
    /\ UNCHANGED <<sup, lock, procs, local, fsv, uiv, hist>>

\* SbFlag without the early return: the flag is read and ignored.
SbFlag_NoEarlyReturn(t) ==
    /\ Running /\ pc[t] = "sb_flag"
    /\ pc' = Upd(pc, t, "sb_lock1")
    /\ UNCHANGED <<sup, lock, procs, op, local, result, fsv, calls,
                   uiv, hist>>

\* if state.is_shutting_down.load() { return Err(..) }
SbFlag(t) ==
    /\ Running /\ pc[t] = "sb_flag"
    /\ IF is_shutting_down
       THEN /\ result' = Upd(result, t, "Err: Application is shutting down")
            /\ pc' = Upd(pc, t, "idle")
       ELSE /\ pc' = Upd(pc, t, "sb_lock1")
            /\ UNCHANGED result
    /\ UNCHANGED <<sup, lock, procs, op, local, fsv, calls, uiv, hist>>

\* state.child.lock() of the tracked check.
SbLock1(t) ==
    /\ Running /\ pc[t] = "sb_lock1" /\ lock = "free"
    /\ lock' = t
    /\ pc' = Upd(pc, t, "sb_check")
    /\ UNCHANGED <<sup, procs, op, local, result, fsv, calls, uiv, hist>>

\* SbCheck with the tracked check lost: the slot is never looked at.
SbCheck_IgnoresSlot(t) ==
    /\ Running /\ pc[t] = "sb_check" /\ lock = t
    /\ lock' = "free"
    /\ pc' = Upd(pc, t, "sb_probe")
    /\ UNCHANGED <<sup, procs, op, local, result, fsv, calls, uiv, hist>>

\* SbCheck as a tracked check whose guard lives on to the end of the function:
\* the lock is still held when the probe, the spawn and the second lock follow.
SbCheck_KeepsGuard(t) ==
    /\ Running /\ pc[t] = "sb_check" /\ lock = t
    /\ IF child # None
       THEN /\ result' = Upd(result, t, "Ok: Backend already running (tracked)")
            /\ pc' = Upd(pc, t, "idle")
            /\ lock' = "free"
       ELSE /\ pc' = Upd(pc, t, "sb_probe")
            /\ UNCHANGED <<result, lock>>
    /\ UNCHANGED <<sup, procs, op, local, fsv, calls, uiv, hist>>

\* guard.is_some() under the lock; the guard is dropped on both paths.
SbCheck(t) ==
    /\ Running /\ pc[t] = "sb_check" /\ lock = t
    /\ lock' = "free"
    /\ IF child # None
       THEN /\ result' = Upd(result, t, "Ok: Backend already running (tracked)")
            /\ pc' = Upd(pc, t, "idle")
       ELSE /\ pc' = Upd(pc, t, "sb_probe")
            /\ UNCHANGED result
    /\ UNCHANGED <<sup, procs, op, local, fsv, calls, uiv, hist>>

\* SbProbe with the test inverted: a backend that answers is not reused.
SbProbe_Inverted(t) ==
    /\ Running /\ pc[t] = "sb_probe"
    /\ IF ~is_backend_running
       THEN /\ result' = Upd(result, t, "Ok: Backend already running (external)")
            /\ pc' = Upd(pc, t, "idle")
       ELSE /\ pc' = Upd(pc, t, "sb_spawn")
            /\ UNCHANGED result
    /\ UNCHANGED <<sup, lock, procs, op, local, fsv, calls, uiv, hist>>

\* is_backend_running(): reuse an instance that answers on the port.
SbProbe(t) ==
    /\ Running /\ pc[t] = "sb_probe"
    /\ IF is_backend_running
       THEN /\ result' = Upd(result, t, "Ok: Backend already running (external)")
            /\ pc' = Upd(pc, t, "idle")
       ELSE /\ pc' = Upd(pc, t, "sb_spawn")
            /\ UNCHANGED result
    /\ UNCHANGED <<sup, lock, procs, op, local, fsv, calls, uiv, hist>>

\* SbSpawn as a launch that unwraps: a failure to create or spawn the sidecar
\* panics and takes the application down.
SbSpawn_PanicsOnFailure(t) ==
    /\ Running /\ pc[t] = "sb_spawn"
    /\ \/ /\ result' = Upd(result, t, "Err: Failed to spawn backend")
          /\ pc' = Upd(pc, t, "idle")
          /\ exited' = TRUE
          /\ UNCHANGED <<procs, local, log>>
       \/ /\ Len(procs) < MaxProcs
          /\ procs' = Append(procs, Proc("managed", FALSE))
          /\ local' = Upd(local, t, Len(procs) + 1)
          /\ log' = Logged("start_backend", "spawn")
          /\ pc' = Upd(pc, t, "sb_lock2")
          /\ UNCHANGED <<result, exited>>
    /\ UNCHANGED <<sup, lock, op, fsv, calls, window, trace, gkDone>>

\* app.shell().sidecar(..)? and sidecar.spawn()?: either fails with a string
\* error, or a managed process exists and its handle is in a local.
SbSpawn(t) ==
    /\ Running /\ pc[t] = "sb_spawn"
    /\ \/ /\ result' = Upd(result, t, "Err: Failed to create sidecar command")
          /\ pc' = Upd(pc, t, "idle")
          /\ UNCHANGED <<procs, local, log>>
       \/ /\ result' = Upd(result, t, "Err: Failed to spawn backend")
          /\ pc' = Upd(pc, t, "idle")
          /\ UNCHANGED <<procs, local, log>>
       \/ /\ Len(procs) < MaxProcs
          /\ procs' = Append(procs, Proc("managed", FALSE))
          /\ local' = Upd(local, t, Len(procs) + 1)
          /\ log' = Logged("start_backend", "spawn")
          /\ pc' = Upd(pc, t, "sb_lock2")
          /\ UNCHANGED result
    /\ UNCHANGED <<sup, lock, op, fsv, calls, uiv, trace, gkDone>>

\* state.child.lock() of the store.
SbLock2(t) ==
    /\ Running /\ pc[t] = "sb_lock2" /\ lock = "free"
    /\ lock' = t
    /\ pc' = Upd(pc, t, "sb_store")
    /\ UNCHANGED <<sup, procs, op, local, result, fsv, calls, uiv, hist>>

\* *guard = Some(child); the guard is dropped; Ok("Backend started").
SbStore(t) ==
    /\ Running /\ pc[t] = "sb_store" /\ lock = t
    /\ child' = local[t]
    /\ lock' = "free"
    /\ local' = Upd(local, t, 0)
    /\ log' = Logged("start_backend", "store_handle")
    /\ result' = Upd(result, t, "Ok: Backend started")
    /\ pc' = Upd(pc, t, "idle")
    /\ UNCHANGED <<backend_pid, is_shutting_down, procs, op, fsv, calls,
                   uiv, trace, gkDone>>

-----------------------------------------------------------------------------
\* check_backend_health (command)
CheckBackendHealth(t) ==
    /\ CanCall(t)
    /\ calls' = calls + 1
    /\ op' = Upd(op, t, "check_backend_health")
    /\ result' = Upd(result, t, "pending")
    /\ pc' = Upd(pc, t, "cbh")
    /\ UNCHANGED <<sup, lock, procs, local, fsv, uiv, hist>>

\* The body: Ok(true).
check_backend_health(t) ==
    /\ Running /\ pc[t] = "cbh"
    /\ result' = Upd(result, t, "Ok: true")
    /\ pc' = Upd(pc, t, "idle")
    /\ UNCHANGED <<sup, lock, procs, op, local, fsv, calls, uiv, hist>>

-----------------------------------------------------------------------------
\* kill_zombie_backends, unix: pgrep -f xfactor-backend | kill -9, then
\* lsof -ti :9876 | kill -9; every result is dropped.

\* Processes whose command line matches "xfactor-backend".
NameMatches == {p \in Pids : procs[p].alive /\ procs[p].kind # "external"}

\* Processes bound to port 9876.
PortMatches == {p \in Pids : procs[p].alive /\ procs[p].listening}

\* kill_zombie_backends returns to its caller: graceful_kill_backend returns in
\* turn, and force_cleanup goes on to its own sweep.
kill_zombie_backends(t) ==
    /\ Running /\ pc[t] \in {"gk_sweep", "fc_sweep"}
    /\ procs' = Killed(procs, NameMatches \cup PortMatches)
    /\ log' = Logged(IF pc[t] = "gk_sweep" THEN "graceful_kill_backend"
                     ELSE "force_cleanup", "sweep")
    /\ trace' = Upd(trace, t, Append(trace[t], "sweep"))
    /\ gkDone' = (gkDone \/ pc[t] = "gk_sweep")
    /\ pc' = Upd(pc, t, IF pc[t] = "fc_sweep" THEN "fc_ret"
                        ELSE IF op[t] = "force_cleanup" THEN "fc_sweep"
                        ELSE "gk_ret")
    /\ UNCHANGED <<sup, lock, op, local, result, fsv, calls, uiv>>

-----------------------------------------------------------------------------
\* graceful_kill_backend

\* GkFlag with the store lost.
GkFlag_NoStore(t) ==
    /\ Running /\ pc[t] = "gk_flag"
    /\ trace' = Upd(trace, t, Append(trace[t], "flag"))
    /\ pc' = Upd(pc, t, "gk_lock")
    /\ UNCHANGED <<sup, lock, procs, op, local, result, fsv, calls,
                   uiv, log, gkDone>>

\* state.is_shutting_down.store(true)
GkFlag(t) ==
    /\ Running /\ pc[t] = "gk_flag"
    /\ is_shutting_down' = TRUE
    /\ trace' = Upd(trace, t, Append(trace[t], "flag"))
    /\ pc' = Upd(pc, t, "gk_lock")
    /\ UNCHANGED <<child, backend_pid, lock, procs, op, local, result,
                   fsv, calls, uiv, log, gkDone>>

\* state.child.lock()
GkLock(t) ==
    /\ Running /\ pc[t] = "gk_lock" /\ lock = "free"
    /\ lock' = t
    /\ pc' = Upd(pc, t, "gk_take")
    /\ UNCHANGED <<sup, procs, op, local, result, fsv, calls, uiv, hist>>

\* guard.take(), and child.kill() of the handle taken; its error is dropped.
GkTake(t) ==
    /\ Running /\ pc[t] = "gk_take" /\ lock = t
    /\ lock' = "free"
    /\ child' = None
    /\ IF child # None
       THEN /\ procs' = Killed(procs, {child})
            /\ log' = Logged("graceful_kill_backend", "handle_kill")
       ELSE UNCHANGED <<procs, log>>
    /\ trace' = Upd(trace, t, Append(trace[t], "handle"))
    /\ pc' = Upd(pc, t, "gk_pid")
    /\ UNCHANGED <<backend_pid, is_shutting_down, op, local, result,
                   fsv, calls, uiv, gkDone>>

\* GkPid with the sweep moved into the pid branch: with no recorded pid
\* graceful_kill_backend returns at once.
GkPid_SweepOnlyWithPid(t) ==
    /\ Running /\ pc[t] = "gk_pid"
    /\ local' = Upd(local, t, backend_pid)
    /\ trace' = Upd(trace, t, Append(trace[t], "pid"))
    /\ gkDone' = (gkDone \/ backend_pid = 0)
    /\ pc' = Upd(pc, t, IF backend_pid > 0 THEN "gk_term"
                        ELSE IF op[t] = "force_cleanup" THEN "fc_sweep"
                        ELSE "gk_ret")
    /\ UNCHANGED <<sup, lock, procs, op, result, fsv, calls, uiv, log>>

\* let pid = state.backend_pid.load(); if pid > 0 { .. }
GkPid(t) ==
    /\ Running /\ pc[t] = "gk_pid"
    /\ local' = Upd(local, t, backend_pid)
    /\ trace' = Upd(trace, t, Append(trace[t], "pid"))
    /\ pc' = Upd(pc, t, IF backend_pid > 0 THEN "gk_term" ELSE "gk_sweep")
    /\ UNCHANGED <<sup, lock, procs, op, result, fsv, calls, uiv,
                   log, gkDone>>

\* GkTerm as a shutdown that looks whether the polite signal was enough: when
\* the process is gone after the grace period the forceful signal is skipped.
GkTerm_SkipsKillWhenExited(t) ==
    /\ Running /\ pc[t] = "gk_term"
    /\ \/ procs' = Killed(procs, {local[t]})
       \/ UNCHANGED procs
    /\ log' = Logged("graceful_kill_backend", "sigterm")
    /\ trace' = Upd(trace, t, trace[t] \o <<"sigterm", "sleep">>)
    /\ pc' = Upd(pc, t, IF procs'[local[t]].alive THEN "gk_kill9" ELSE "gk_sweep")
    /\ UNCHANGED <<sup, lock, op, local, result, fsv, calls, uiv,
                   gkDone>>

\* kill -15 pid, its result dropped, and std::thread::sleep(500 ms): the
\* process may exit within the grace period or go on.
GkTerm(t) ==
    /\ Running /\ pc[t] = "gk_term"
    /\ \/ procs' = Killed(procs, {local[t]})
       \/ UNCHANGED procs
    /\ log' = Logged("graceful_kill_backend", "sigterm")
    /\ trace' = Upd(trace, t, trace[t] \o <<"sigterm", "sleep">>)
    /\ pc' = Upd(pc, t, "gk_kill9")
    /\ UNCHANGED <<sup, lock, op, local, result, fsv, calls, uiv,
                   gkDone>>

\* GkKill9 as a shutdown that forgets the pid it killed: backend_pid is set
\* back to 0 after the forceful signal.
GkKill9_ResetsPid(t) ==
    /\ Running /\ pc[t] = "gk_kill9"
    /\ procs' = Killed(procs, {local[t]})
    /\ backend_pid' = 0
    /\ log' = Logged("graceful_kill_backend", "sigkill")
    /\ trace' = Upd(trace, t, Append(trace[t], "sigkill"))
    /\ local' = Upd(local, t, 0)
    /\ pc' = Upd(pc, t, "gk_sweep")
    /\ UNCHANGED <<child, is_shutting_down, lock, op, result, fsv, calls, uiv,
                   gkDone>>

\* kill -9 pid; the result is dropped.
GkKill9(t) ==
    /\ Running /\ pc[t] = "gk_kill9"
    /\ procs' = Killed(procs, {local[t]})
    /\ log' = Logged("graceful_kill_backend", "sigkill")
    /\ trace' = Upd(trace, t, Append(trace[t], "sigkill"))
    /\ local' = Upd(local, t, 0)
    /\ pc' = Upd(pc, t, "gk_sweep")
    /\ UNCHANGED <<sup, lock, op, result, fsv, calls, uiv,
                   gkDone>>

-----------------------------------------------------------------------------
\* stop_backend (command)
StopBackend(t) ==
    /\ CanCall(t)
    /\ calls' = calls + 1
    /\ op' = Upd(op, t, "stop_backend")
    /\ result' = Upd(result, t, "pending")
    /\ trace' = Upd(trace, t, << >>)
    /\ pc' = Upd(pc, t, "gk_flag")
    /\ UNCHANGED <<sup, lock, procs, local, fsv, uiv, log, gkDone>>

\* StopBackendRet as a stop that re-arms the supervisor: the flag is cleared
\* so that the backend can be started again.
StopBackendRet_ClearsFlag(t) ==
    /\ Running /\ pc[t] = "gk_ret" /\ op[t] = "stop_backend"
    /\ is_shutting_down' = FALSE
    /\ result' = Upd(result, t, "Ok: Backend stopped and cleaned up")
    /\ trace' = Upd(trace, t, << >>)
    /\ pc' = Upd(pc, t, "idle")
    /\ UNCHANGED <<child, backend_pid, lock, procs, op, local, fsv, calls,
                   uiv, log, gkDone>>

StopBackendRet(t) ==
    /\ Running /\ pc[t] = "gk_ret" /\ op[t] = "stop_backend"
    /\ result' = Upd(result, t, "Ok: Backend stopped and cleaned up")
    /\ trace' = Upd(trace, t, << >>)
    /\ pc' = Upd(pc, t, "idle")
    /\ UNCHANGED <<sup, lock, procs, op, local, fsv, calls, uiv,
                   log, gkDone>>

\* force_cleanup (command)
ForceCleanup(t) ==
    /\ CanCall(t)
    /\ calls' = calls + 1
    /\ op' = Upd(op, t, "force_cleanup")
    /\ result' = Upd(result, t, "pending")
    /\ trace' = Upd(trace, t, << >>)
    /\ pc' = Upd(pc, t, "fc_flag")
    /\ UNCHANGED <<sup, lock, procs, local, fsv, uiv, log, gkDone>>

\* state.is_shutting_down.store(true), then graceful_kill_backend is entered;
\* kill_zombie_backends follows it.
FcFlag(t) ==
    /\ Running /\ pc[t] = "fc_flag"
    /\ is_shutting_down' = TRUE
    /\ trace' = Upd(trace, t, Append(trace[t], "flag"))
    /\ pc' = Upd(pc, t, "gk_flag")
    /\ UNCHANGED <<child, backend_pid, lock, procs, op, local, result,
                   fsv, calls, uiv, log, gkDone>>

ForceCleanupRet(t) ==
    /\ Running /\ pc[t] = "fc_ret"
    /\ result' = Upd(result, t, "Ok: Force cleanup completed")
    /\ trace' = Upd(trace, t, << >>)
    /\ pc' = Upd(pc, t, "idle")
    /\ UNCHANGED <<sup, lock, procs, op, local, fsv, calls, uiv,
                   log, gkDone>>

-----------------------------------------------------------------------------
\* The automatic startup task spawned in setup.

StDone(t) == Upd(pc, t, "done")

\* tokio::time::sleep(500 ms), then the candidate search over the directories
\* d that resolve and the paths f that exist.
Search(d, f) ==
    /\ Running /\ pc[Startup] = "st_locate"
    /\ dirs' = d /\ files' = f
    /\ backend_path' = find(Candidates(d), f)
    /\ pc' = Upd(pc, Startup, "st_probe")
    /\ UNCHANGED <<sup, lock, procs, op, local, result, calls, uiv, hist>>

StLocate == \E f \in Installations : Search(AllDirs, f)

\* StProbe as a startup that clears the port first: whatever answers on it
\* or carries the backend's name is killed before the launch.
StProbe_KillsFirst ==
    /\ Running /\ pc[Startup] = "st_probe"
    /\ procs' = Killed(procs, NameMatches \cup PortMatches)
    /\ log' = Logged("startup", "sweep")
    /\ pc' = IF backend_path # << >> THEN Upd(pc, Startup, "st_setsid")
             ELSE Upd(pc, Startup, "st_sidecar")
    /\ UNCHANGED <<sup, lock, op, local, result, fsv, calls, uiv,
                   trace, gkDone>>

\* if is_backend_running() { reuse } else if let Some(backend) { detached }
\* else { sidecar }
StProbe ==
    /\ Running /\ pc[Startup] = "st_probe"
    /\ pc' = IF is_backend_running THEN StDone(Startup)
             ELSE IF backend_path # << >> THEN Upd(pc, Startup, "st_setsid")
             ELSE Upd(pc, Startup, "st_sidecar")
    /\ UNCHANGED <<sup, lock, procs, op, local, result, fsv, calls,
                   uiv, hist>>

\* A detached process was spawned; its pid is in the task's local.
SpawnDetached ==
    /\ Len(procs) < MaxProcs
    /\ procs' = Append(procs, Proc("detached", FALSE))
    /\ local' = Upd(local, Startup, Len(procs) + 1)
    /\ log' = Logged("startup", "spawn")
    /\ pc' = Upd(pc, Startup, "st_storepid")

\* Command::new("setsid").arg(&backend).spawn(): Ok(child), or Err and the
\* direct spawn is tried.
StSetsid ==
    /\ Running /\ pc[Startup] = "st_setsid"
    /\ \/ SpawnDetached
       \/ /\ pc' = Upd(pc, Startup, "st_direct")
          /\ UNCHANGED <<procs, local, log>>
    /\ UNCHANGED <<sup, lock, op, result, fsv, calls, uiv, trace,
                   gkDone>>

\* Command::new(&backend).spawn(): Ok(child), or Err, which is logged.
StDirect ==
    /\ Running /\ pc[Startup] = "st_direct"
    /\ \/ SpawnDetached
       \/ /\ pc' = StDone(Startup)
          /\ UNCHANGED <<procs, local, log>>
    /\ UNCHANGED <<sup, lock, op, result, fsv, calls, uiv, trace,
                   gkDone>>

\* StStorePid as a detached launch that tracks the process in the slot
\* instead of backend_pid.
StStorePid_IntoSlot ==
    /\ Running /\ pc[Startup] = "st_storepid"
    /\ child' = local[Startup]
    /\ local' = Upd(local, Startup, 0)
    /\ log' = Logged("startup", "store_handle")
    /\ pc' = StDone(Startup)
    /\ UNCHANGED <<backend_pid, is_shutting_down, lock, procs, op, result,
                   fsv, calls, uiv, trace, gkDone>>

\* state.backend_pid.store(pid)
StStorePid ==
    /\ Running /\ pc[Startup] = "st_storepid"
    /\ backend_pid' = local[Startup]
    /\ local' = Upd(local, Startup, 0)
    /\ log' = Logged("startup", "store_pid")
    /\ pc' = StDone(Startup)
    /\ UNCHANGED <<child, is_shutting_down, lock, procs, op, result,
                   fsv, calls, uiv, trace, gkDone>>

\* handle.shell().sidecar(..) and sidecar.spawn(): an Err of either is logged.
StSidecar ==
    /\ Running /\ pc[Startup] = "st_sidecar"
    /\ \/ /\ pc' = StDone(Startup)
          /\ UNCHANGED <<procs, local, log>>
       \/ /\ Len(procs) < MaxProcs
          /\ procs' = Append(procs, Proc("managed", FALSE))
          /\ local' = Upd(local, Startup, Len(procs) + 1)
          /\ log' = Logged("startup", "spawn")
          /\ pc' = Upd(pc, Startup, "st_lock")
    /\ UNCHANGED <<sup, lock, op, result, fsv, calls, uiv, trace,
                   gkDone>>

\* state.child.lock()
StLock ==
    /\ Running /\ pc[Startup] = "st_lock" /\ lock = "free"
    /\ lock' = Startup
    /\ pc' = Upd(pc, Startup, "st_store")
    /\ UNCHANGED <<sup, procs, op, local, result, fsv, calls, uiv, hist>>

\* *guard = Some(child); the guard is dropped.
StStore ==
    /\ Running /\ pc[Startup] = "st_store" /\ lock = Startup
    /\ child' = local[Startup]
    /\ lock' = "free"
    /\ local' = Upd(local, Startup, 0)
    /\ log' = Logged("startup", "store_handle")
    /\ pc' = StDone(Startup)
    /\ UNCHANGED <<backend_pid, is_shutting_down, procs, op, result,
                   fsv, calls, uiv, trace, gkDone>>

-----------------------------------------------------------------------------
\* Handlers of the event thread: one at a time.

\* The event thread is free and takes the next event.
UiIdle == Running /\ pc[Ui] = "idle" /\ calls < MaxCalls /\ calls' = calls + 1

UiCall(o) ==
    /\ op' = Upd(op, Ui, o)
    /\ trace' = Upd(trace, Ui, << >>)
    /\ pc' = Upd(pc, Ui, "gk_flag")
    /\ UNCHANGED <<sup, lock, procs, local, result, fsv, uiv,
                   log, gkDone>>

\* on_window_event, CloseRequested: graceful_kill_backend; the window closes.
CloseRequested == UiIdle /\ window = "open" /\ UiCall("close_requested")

CloseRequestedRet ==
    /\ Running /\ pc[Ui] = "gk_ret" /\ op[Ui] = "close_requested"
    /\ window' = "closing"
    /\ trace' = Upd(trace, Ui, << >>)
    /\ pc' = Upd(pc, Ui, "idle")
    /\ UNCHANGED <<sup, lock, procs, op, local, result, fsv, calls,
                   exited, log, gkDone>>

\* on_window_event, Destroyed: graceful_kill_backend; the event loop ends
\* with the last window.
Destroyed == UiIdle /\ window = "closing" /\ UiCall("destroyed")

DestroyedRet ==
    /\ Running /\ pc[Ui] = "gk_ret" /\ op[Ui] = "destroyed"
    /\ window' = "destroyed"
    /\ exited' = TRUE
    /\ log' = Logged("destroyed", "exit")
    /\ trace' = Upd(trace, Ui, << >>)
    /\ pc' = Upd(pc, Ui, "idle")
    /\ UNCHANGED <<sup, lock, procs, op, local, result, fsv, calls,
                   gkDone>>

\* Tray menu, "tray-quit": graceful_kill_backend, then app.exit(0).
TrayQuit == UiIdle /\ UiCall("tray_quit")

TrayQuitExit ==
    /\ Running /\ pc[Ui] = "gk_ret" /\ op[Ui] = "tray_quit"
    /\ exited' = TRUE
    /\ log' = Logged("tray_quit", "exit")
    /\ trace' = Upd(trace, Ui, << >>)
    /\ pc' = Upd(pc, Ui, "idle")
    /\ UNCHANGED <<sup, lock, procs, op, local, result, fsv, calls,
                   window, gkDone>>

\* File > Quit is PredefinedMenuItem::quit: the application exits; no handler
\* of this file runs.
MenuQuit ==
    /\ UiIdle
    /\ op' = Upd(op, Ui, "menu_quit")
    /\ exited' = TRUE
    /\ log' = Logged("menu_quit", "exit")
    /\ UNCHANGED <<sup, lock, procs, pc, local, result, fsv,
                   window, trace, gkDone>>

\* on_menu_event, "kill-switch": the event is emitted to the frontend.
KillSwitch ==
    /\ UiIdle
    /\ op' = Upd(op, Ui, "kill_switch")
    /\ UNCHANGED <<sup, lock, procs, pc, local, result, fsv, log,
                   uiv, trace, gkDone>>

-----------------------------------------------------------------------------
\* The environment.

\* A backend that was started binds port 9876 once it is up; the port has
\* one owner.
ProcReady(p) ==
    /\ Alive(p) /\ ~procs[p].listening /\ ~is_backend_running
    /\ procs' = [procs EXCEPT ![p].listening = TRUE]
    /\ UNCHANGED <<sup, lock, pc, op, local, result, fsv, calls, uiv, hist>>

\* ProcExit as a termination the event consumer acts on: the handle of the
\* process that ended is removed from the tracked slot.
ProcExit_ClearsSlot(p) ==
    /\ Alive(p) /\ procs[p].kind # "external"
    /\ procs' = Killed(procs, {p})
    /\ child' = IF child = p THEN None ELSE child
    /\ UNCHANGED <<backend_pid, is_shutting_down, lock, pc, op, local, result,
                   fsv, calls, uiv, hist>>

\* A backend this shell launched ends on its own.
ProcExit(p) ==
    /\ Alive(p) /\ procs[p].kind # "external"
    /\ procs' = Killed(procs, {p})
    /\ UNCHANGED <<sup, lock, pc, op, local, result, fsv, calls, uiv, hist>>

-----------------------------------------------------------------------------
Next ==
    \/ \E t \in Callers :
          \/ StartBackend(t) \/ SbFlag(t) \/ SbLock1(t) \/ SbCheck(t) \/ SbProbe(t)
          \/ SbSpawn(t) \/ SbLock2(t) \/ SbStore(t)
          \/ CheckBackendHealth(t) \/ check_backend_health(t)
          \/ StopBackend(t) \/ StopBackendRet(t)
          \/ ForceCleanup(t) \/ FcFlag(t) \/ ForceCleanupRet(t)
    \/ \E t \in Callers \cup {Ui} :
          \/ GkFlag(t) \/ GkLock(t) \/ GkTake(t) \/ GkPid(t)
          \/ GkTerm(t) \/ GkKill9(t)
          \/ kill_zombie_backends(t)
    \/ StLocate \/ StProbe \/ StSetsid \/ StDirect \/ StStorePid
    \/ StSidecar \/ StLock \/ StStore
    \/ CloseRequested \/ CloseRequestedRet \/ Destroyed \/ DestroyedRet
    \/ TrayQuit \/ TrayQuitExit \/ MenuQuit \/ KillSwitch
    \/ \E p \in Pids : ProcReady(p) \/ ProcExit(p)

Spec == Init /\ [][Next]_vars

\* The steps of an operation under way, per thread: the runtime schedules
\* every task and the event thread runs its handler on.
CallerStep(t) ==
    \/ SbFlag(t) \/ SbLock1(t) \/ SbCheck(t) \/ SbProbe(t)
    \/ SbSpawn(t) \/ SbLock2(t) \/ SbStore(t)
    \/ check_backend_health(t)
    \/ StopBackendRet(t) \/ FcFlag(t) \/ ForceCleanupRet(t)
    \/ GkFlag(t) \/ GkLock(t) \/ GkTake(t) \/ GkPid(t)
    \/ GkTerm(t) \/ GkKill9(t) \/ kill_zombie_backends(t)

UiStep ==
    \/ GkFlag(Ui) \/ GkLock(Ui) \/ GkTake(Ui) \/ GkPid(Ui)
    \/ GkTerm(Ui) \/ GkKill9(Ui) \/ kill_zombie_backends(Ui)
    \/ CloseRequestedRet \/ DestroyedRet \/ TrayQuitExit

StartupStep ==
    \/ StLocate \/ StProbe \/ StSetsid \/ StDirect \/ StStorePid
    \/ StSidecar \/ StLock \/ StStore

\* The supervisor under fair scheduling of its threads.
FairSpec ==
    /\ Spec
    /\ \A t \in Callers : WF_vars(CallerStep(t))
    /\ WF_vars(UiStep)
    /\ WF_vars(StartupStep)

\* The candidate search alone, over every outcome of the directory lookups
\* and every disk with at most MaxFiles candidate paths present.
InitLocate == Boot /\ dirs \in DirStates /\ files \in Disks(MaxFiles)

LocateBackend == Search(dirs, files)

NextLocate == LocateBackend

SpecLocate == InitLocate /\ [][NextLocate]_vars

-----------------------------------------------------------------------------
\* Properties

\* Thread t takes this step: every action moves the position of the one
\* thread that takes it.
Step(t) == pc'[t] # pc[t]

\* Positions inside the launch paths.
LaunchPcs == {"sb_flag", "sb_lock1", "sb_check", "sb_probe", "sb_spawn",
              "sb_lock2", "sb_store", "st_locate", "st_probe", "st_setsid",
              "st_direct", "st_storepid", "st_sidecar", "st_lock", "st_store"}

\* No process is created and none is ended in this step.
NoSpawnNoKill == procs' = procs

StoppedResults == {"Ok: Backend stopped and cleaned up",
                   "Ok: Force cleanup completed"}

\* C1: when start_backend reads is_shutting_down as true it returns the
\* "shutting down" error at once, spawns no process and leaves the tracked
\* slot as it was.
C1_StartRejectedWhenShuttingDown ==
    [][\A t \in Callers :
          (is_shutting_down /\ pc[t] = "sb_flag" /\ Step(t))
          => /\ result'[t] = "Err: Application is shutting down"
             /\ pc'[t] = "idle"
             /\ NoSpawnNoKill
             /\ child' = child]_vars

C1_Witness ==
    \E t \in Callers :
        /\ is_shutting_down /\ pc[t] = "idle"
        /\ result[t] = "Err: Application is shutting down"

\* C2: no backend process is spawned and no handle is stored into the tracked
\* slot after is_shutting_down has become true.
C2_NoLaunchAfterShutdownFlag ==
    \A e \in log : e.what \in {"spawn", "store_handle"} => ~e.flag

\* C3: no launch path kills a backend: every kill, signal and sweep is issued
\* inside graceful_kill_backend or force_cleanup, no step of start_backend or
\* of the startup task ends a process, and when the health probe reports a
\* backend alive the start path spawns nothing and kills nothing.
C3_LaunchPathsNeverKill ==
    [][/\ \A e \in log' :
             e.what \in KillKinds
             => e.by \in {"graceful_kill_backend", "force_cleanup"}
       /\ \A t \in Callers \cup {Startup} :
             (pc[t] \in LaunchPcs /\ Step(t))
             => /\ \A p \in Pids : procs'[p] = procs[p]
                /\ (pc[t] \in {"sb_probe", "st_probe"} /\ is_backend_running)
                   => (NoSpawnNoKill /\ pc'[t] \in {"idle", "done"})]_vars

C3_Witness ==
    /\ pc[Startup] = "done" /\ log = {}
    /\ \E t \in Callers : result[t] = "Ok: Backend already running (external)"
    /\ \E p \in Pids : procs[p].kind = "external" /\ procs[p].alive

\* A shutdown operation has run to completion: stop_backend or force_cleanup
\* returned, or a window-close / quit handler finished graceful_kill_backend.
ShutdownCompleted ==
    \/ \E t \in Callers : result[t] \in StoppedResults
    \/ window # "open"
    \/ (exited /\ op[Ui] = "tray_quit")

\* C4: after a shutdown operation has completed no backend process launched
\* by this shell is left running.
C4_NoBackendLeftAfterShutdown ==
    ShutdownCompleted => \A p \in Launched : ~procs[p].alive

\* C5: once graceful_kill_backend has completed the tracked slot is empty,
\* also when a start_backend call was in flight when the shutdown began.
C5_SlotEmptyAfterShutdown ==
    gkDone => child = None

\* C6: with a handle in the slot start_backend returns "already running
\* (tracked)" as often as it is called; no step of it up to and including the
\* tracked check spawns a process or changes child, backend_pid or
\* is_shutting_down.
C6_TrackedStartIdempotent ==
    [][\A t \in Callers :
          (pc[t] \in {"sb_flag", "sb_lock1", "sb_check"} /\ Step(t))
          => /\ NoSpawnNoKill
             /\ UNCHANGED sup
             /\ (pc[t] = "sb_check" /\ child # None)
                => /\ result'[t] = "Ok: Backend already running (tracked)"
                   /\ pc'[t] = "idle"]_vars

C6_Witness ==
    /\ ~is_shutting_down /\ child # None /\ calls >= 2
    /\ \A t \in Callers :
          /\ pc[t] = "idle"
          /\ result[t] = "Ok: Backend already running (tracked)"

\* C7: when start_backend probes the port and a backend answers, it returns
\* "already running (external)", spawns nothing and leaves child, backend_pid
\* and is_shutting_down unchanged.
C7_ExternalBackendReused ==
    [][\A t \in Callers :
          (pc[t] = "sb_probe" /\ Step(t) /\ is_backend_running)
          => /\ result'[t] = "Ok: Backend already running (external)"
             /\ pc'[t] = "idle"
             /\ NoSpawnNoKill
             /\ UNCHANGED sup]_vars

C7_Witness ==
    \E t \in Callers :
        /\ pc[t] = "idle" /\ result[t] = "Ok: Backend already running (external)"
        /\ child = None /\ ~is_shutting_down /\ is_backend_running

\* C8, as claimed: a step of stop_backend taken with the slot empty and
\* backend_pid = 0 changes none of child, backend_pid, is_shutting_down.
C8_StopWithNothingTrackedIsNoOp ==
    [][\A t \in Callers :
          (op'[t] = "stop_backend" /\ Step(t) /\ child = None /\ backend_pid = 0)
          => UNCHANGED sup]_vars

\* C8, amended: stop_backend never changes backend_pid, leaves an empty slot
\* empty, stores true into is_shutting_down and never clears it, and returns
\* its success result; a step of it taken when is_shutting_down is already
\* true and the slot is empty changes no supervisor state, so a second
\* stop_backend leaves the state the first one left.
C8_StopSetsOnlyTheFlag ==
    [][\A t \in Callers :
          (op'[t] = "stop_backend" /\ Step(t))
          => /\ backend_pid' = backend_pid
             /\ (child = None => child' = None)
             /\ (pc[t] = "gk_flag" \/ is_shutting_down) => is_shutting_down'
             /\ (pc'[t] = "idle")
                => /\ result'[t] = "Ok: Backend stopped and cleaned up"
                   /\ is_shutting_down'
             /\ (is_shutting_down /\ child = None) => UNCHANGED sup]_vars

C8_Witness ==
    /\ child = None /\ backend_pid = 0 /\ is_shutting_down /\ calls >= 2
    /\ \A t \in Callers :
          /\ pc[t] = "idle"
          /\ result[t] = "Ok: Backend stopped and cleaned up"

\* The steps of one complete graceful_kill_backend run.
GkTraces ==
    { <<"flag", "handle", "pid", "sweep">>,
      <<"flag", "handle", "pid", "sigterm", "sleep", "sigkill", "sweep">> }

\* C9: every graceful_kill_backend run ends with the sweep, after its handle
\* step and its pid step, whether or not these found anything; force_cleanup
\* stores the flag, runs the whole of graceful_kill_backend, sweeps once more
\* and returns its success result; a shutdown operation returns from nowhere
\* else.
C9_SweepAlwaysRuns ==
    [][\A t \in Callers \cup {Ui} :
          /\ pc'[t] = "gk_ret" => trace'[t] \in GkTraces
          /\ pc'[t] = "fc_ret"
             => \E g \in GkTraces : trace'[t] = <<"flag">> \o g \o <<"sweep">>
          /\ (op[t] \in ShutdownOps /\ Step(t) /\ pc'[t] = "idle")
             => pc[t] \in {"gk_ret", "fc_ret"}
          /\ (pc[t] = "fc_ret" /\ Step(t))
             => result'[t] = "Ok: Force cleanup completed"]_vars

\* force_cleanup is about to return, having found no handle and no pid.
C9_Witness ==
    \E t \in Callers :
        /\ pc[t] = "fc_ret" /\ backend_pid = 0
        /\ trace[t] = <<"flag", "flag", "handle", "pid", "sweep", "sweep">>
        /\ \A e \in log : e.what = "sweep"

\* C10: check_backend_health returns true iff a connection to port 9876
\* succeeds.
C10_HealthDelegatesToProbe ==
    [][\A t \in Callers :
          (pc[t] = "cbh" /\ Step(t))
          => result'[t] = IF is_backend_running THEN "Ok: true" ELSE "Ok: false"]_vars

\* C11: once the "kill-switch" menu event has been handled, the force_cleanup
\* sequence has been executed: is_shutting_down is set and force_cleanup's
\* kills and sweep have run.
C11_KillSwitchRunsForceCleanup ==
    op[Ui] = "kill_switch"
    => /\ is_shutting_down
       /\ \E e \in log : e.by = "force_cleanup" /\ e.what = "sweep"

\* C12: the application never exits unless a completed graceful_kill_backend
\* precedes the exit, whichever of window close, tray Quit and File > Quit
\* ends it.
C12_NoExitWithoutGracefulShutdown == exited => gkDone

\* The directories of the search in the order they are looked in, and the
\* ones among them that resolve.
SearchOrder == <<"MacOS", "resource_dir", "resource_dir/binaries",
                 "app_data_dir", "exe_dir", "exe_dir/binaries">>

IndexIn(seq, x) == CHOOSE i \in 1..Len(seq) : seq[i] = x

Available(d) ==
    {r \in SearchDirs :
        \/ r = "MacOS" /\ d.resource_dir /\ d.resource_parent
        \/ r \in {"resource_dir", "resource_dir/binaries"} /\ d.resource_dir
        \/ r = "app_data_dir" /\ d.app_data_dir
        \/ r \in {"exe_dir", "exe_dir/binaries"} /\ d.current_exe /\ d.exe_parent}

\* p comes no later than q: an earlier directory wins over an earlier name.
NoLater(p, q) ==
    \/ IndexIn(SearchOrder, p.dir) < IndexIn(SearchOrder, q.dir)
    \/ /\ p.dir = q.dir
       /\ IndexIn(binary_names, p.name) <= IndexIn(binary_names, q.name)

\* C13: the candidate search returns the existing candidate that comes first
\* in directory-major, name-minor order among the directories that resolve; a
\* directory that does not resolve contributes no candidate and does not end
\* the search; the result is None exactly when no candidate exists.
C13_FirstExistingCandidate ==
    pc[Startup] = "st_probe"
    => LET existing == {p \in files : p.dir \in Available(dirs)}
       IN  /\ backend_path = << >> <=> existing = {}
           /\ backend_path # << >>
              => /\ backend_path[1] \in existing
                 /\ \A q \in existing : NoLater(backend_path[1], q)

\* The search has returned resource_dir's second name although the first name
\* exists in a later directory, and with the bundle's MacOS directory
\* unresolved.
C13_Witness ==
    /\ pc[Startup] = "st_probe"
    /\ ~dirs.resource_parent /\ dirs.resource_dir
    /\ backend_path = <<Join("resource_dir", binary_names[2])>>
    /\ files = {Join("resource_dir", binary_names[2]),
                Join("exe_dir", binary_names[1])}

SpawnErrors == {"Err: Failed to create sidecar command",
                "Err: Failed to spawn backend"}

\* C14: a launch that fails to create or spawn the backend is not fatal:
\* start_backend returns an error string and is over, the tracked slot,
\* backend_pid and is_shutting_down are as they were, the slot's lock is not
\* held, the application runs on and a later command can be invoked; a spawn
\* that fails in the startup task changes nothing either.
C14_SpawnFailureNonFatal ==
    [][/\ \A t \in Callers :
            (pc[t] = "sb_spawn" /\ Step(t) /\ procs' = procs)
            => /\ result'[t] \in SpawnErrors
               /\ pc'[t] = "idle"
               /\ UNCHANGED sup
               /\ lock' = lock /\ lock # t
               /\ ~exited'
               /\ calls < MaxCalls => \E u \in Callers : CanCall(u)'
       /\ \A t \in Callers :
            (result'[t] \in SpawnErrors /\ Step(t)) => pc[t] = "sb_spawn"
       /\ (/\ pc[Startup] \in {"st_setsid", "st_direct", "st_sidecar"}
           /\ Step(Startup) /\ procs' = procs)
          => UNCHANGED sup /\ lock' = lock /\ ~exited']_vars

\* start_backend has failed to spawn; nothing is tracked, the flag is clear
\* and a further command can be invoked.
C14_Witness ==
    \E t \in Callers :
        /\ result[t] = "Err: Failed to spawn backend" /\ pc[t] = "idle"
        /\ child = None /\ backend_pid = 0 /\ ~is_shutting_down
        /\ CanCall(t)

\* C15: every kill action (the handle kill, a signal to the recorded pid, a
\* sweep kill) is taken in a state where is_shutting_down is true.
C15_FlagSetBeforeAnyKill ==
    \A e \in log : e.what \in KillKinds => e.flag

\* A handle was killed, the recorded pid was signalled twice and a sweep ran.
C15_Witness ==
    \A k \in KillKinds : \E e \in log : e.what = k /\ e.flag

Last(seq) == seq[Len(seq)]

C17_LaunchOnlyIntoEmptySlot ==
    [][\A t \in Callers \cup {Startup} :
          /\ (pc[t] \in {"sb_store", "st_store"} /\ Step(t)) => child = None
          /\ (pc[t] \in LaunchPcs /\ Step(t) /\ Len(procs') > Len(procs))
             => child = None]_vars

\* The startup task spawns a process of kind k in this step and keeps its pid.
StartupSpawns(k) ==
    /\ procs' = Append(procs, Proc(k, FALSE))
    /\ local'[Startup] = Len(procs')

\* C18: when its probe fails the startup task launches the located binary
\* detached and, on success, records the pid in backend_pid and leaves the
\* tracked slot alone; with no binary located it spawns the sidecar and, on
\* success, stores the handle in the slot and leaves backend_pid alone; a
\* failed spawn changes no supervisor state.
C18_StartupLaunchFrame ==
    [][Step(Startup) =>
          /\ pc[Startup] = "st_probe"
             => /\ UNCHANGED <<sup, procs>>
                /\ pc'[Startup] = IF is_backend_running THEN "done"
                                  ELSE IF backend_path # << >> THEN "st_setsid"
                                  ELSE "st_sidecar"
          /\ pc[Startup] \in {"st_setsid", "st_direct"}
             => /\ UNCHANGED sup
                /\ \/ StartupSpawns("detached") /\ pc'[Startup] = "st_storepid"
                   \/ /\ procs' = procs
                      /\ pc'[Startup] = IF pc[Startup] = "st_setsid"
                                        THEN "st_direct" ELSE "done"
          /\ pc[Startup] = "st_storepid"
             => /\ backend_pid' = local[Startup]
                /\ procs[backend_pid'].kind = "detached"
                /\ UNCHANGED <<child, is_shutting_down, procs>>
                /\ pc'[Startup] = "done"
          /\ pc[Startup] = "st_sidecar"
             => /\ UNCHANGED sup
                /\ \/ StartupSpawns("managed") /\ pc'[Startup] = "st_lock"
                   \/ procs' = procs /\ pc'[Startup] = "done"
          /\ pc[Startup] = "st_lock" => UNCHANGED <<sup, procs>>
          /\ pc[Startup] = "st_store"
             => /\ child' = local[Startup]
                /\ procs[child'].kind = "managed"
                /\ UNCHANGED <<backend_pid, is_shutting_down, procs>>
                /\ pc'[Startup] = "done"]_vars

\* The startup task is over: it located a binary, launched it detached and
\* recorded its pid; the tracked slot is empty.
C18_Witness ==
    /\ pc[Startup] = "done" /\ backend_path # << >>
    /\ backend_pid \in Pids /\ procs[backend_pid].kind = "detached"
    /\ child = None

\* C19: whichever of its kills fail, graceful_kill_backend runs all of its
\* steps in order and ends with the tracked slot empty and is_shutting_down
\* true, and stop_backend and force_cleanup return their success results.
C19_KillFailuresSwallowed ==
    [][\A t \in Callers \cup {Ui} :
          /\ (pc[t] = "gk_sweep" /\ Step(t))
             => /\ \E g \in GkTraces : trace'[t] \in {g, <<"flag">> \o g}
                /\ child' = None
                /\ is_shutting_down'
          /\ (pc[t] \in {"gk_ret", "fc_ret"} /\ t \in Callers /\ Step(t))
             => result'[t] \in StoppedResults]_vars

\* C20: is_shutting_down starts false and, once true, is true in every later
\* state, whatever commands and events follow.
C20_FlagMonotonic ==
    /\ ~is_shutting_down
    /\ [][is_shutting_down => is_shutting_down']_vars

\* The flag is set, the shutdown is over, and commands ran after it: one was
\* rejected and the budget of calls is used up.
C20_Witness ==
    /\ is_shutting_down /\ gkDone /\ calls = MaxCalls
    /\ pc[Startup] = "done"
    /\ \E t \in Callers : result[t] = "Err: Application is shutting down"

\* Positions at which a thread holds the lock of the tracked slot: the
\* tracked check, the two stores and take() with the handle's kill().
LockedPcs == {"sb_check", "sb_store", "gk_take", "st_store"}

\* Positions at which a thread waits for the lock.
LockingPcs == {"sb_lock1", "sb_lock2", "gk_lock", "st_lock"}

\* C21: under fair scheduling every operation that was started returns (or
\* the application has exited), whatever runs beside it: a thread holds the
\* lock of the tracked slot only between acquiring it and the slot access
\* that follows, which releases it, so never while it acquires the lock,
\* probes, spawns, signals the recorded pid, sweeps or waits.
C21_OperationsComplete ==
    /\ [](\A t \in Threads :
            /\ lock = t <=> pc[t] \in LockedPcs
            /\ pc[t] \in LockingPcs => lock # t)
    /\ [][\A t \in Threads :
            (lock = t /\ Step(t))
            => /\ lock' = "free"
               /\ Len(procs') = Len(procs)
               /\ \A e \in log' \ log : e.what \in {"store_handle", "handle_kill"}]_vars
    /\ \A t \in Callers \cup {Ui} :
          (pc[t] # "idle") ~> (pc[t] = "idle" \/ exited)
    /\ <>(pc[Startup] = "done" \/ exited)

\* A start_backend that holds no lock waits for it while a shutdown has it.
C21_Witness ==
    \E t \in Callers, u \in Callers \cup {Ui} :
        /\ pc[t] \in {"sb_lock1", "sb_lock2"} /\ op[t] = "start_backend"
        /\ pc[u] = "gk_take" /\ lock = u

\* C22: backend_pid is never reset: once it is non-zero no step changes it,
\* and every graceful_kill_backend that reads it afterwards goes on to signal
\* that pid, also when the process it names was killed before.
C22_BackendPidNeverReset ==
    [][/\ backend_pid # 0 => backend_pid' = backend_pid
       /\ \A t \in Callers \cup {Ui} :
             (pc[t] = "gk_pid" /\ Step(t) /\ backend_pid # 0)
             => pc'[t] = "gk_term" /\ local'[t] = backend_pid]_vars

\* One graceful_kill_backend has completed and the process backend_pid names
\* is dead; a later one is about to send it the forceful signal again.
C22_Witness ==
    \E t \in Callers \cup {Ui} :
        /\ gkDone /\ backend_pid \in Pids /\ ~procs[backend_pid].alive
        /\ pc[t] = "gk_kill9" /\ local[t] = backend_pid
        /\ \E e \in log : e.what = "sigkill"

\* C23: the tracked slot is emptied only by graceful_kill_backend's take();
\* the end of the managed process leaves its handle in the slot, and with
\* that handle there start_backend returns "already running (tracked)" and
\* spawns nothing.
C23_SlotEmptiedOnlyByShutdown ==
    [][/\ (child # None /\ child' = None)
          => \E t \in Callers \cup {Ui} : pc[t] = "gk_take" /\ Step(t)
       /\ \A t \in Callers :
             (pc[t] = "sb_check" /\ Step(t) /\ child # None /\ ~Alive(child))
             => /\ result'[t] = "Ok: Backend already running (tracked)"
                /\ pc'[t] = "idle"
                /\ NoSpawnNoKill
                /\ child' = child]_vars

\* No shutdown has begun, the managed backend has terminated, its handle is
\* still in the slot and no backend runs; start_backend answered "already
\* running (tracked)".
C23_Witness ==
    \E t \in Callers :
        /\ ~is_shutting_down /\ child # None /\ ~Alive(child)
        /\ ~is_backend_running
        /\ pc[t] = "idle"
        /\ result[t] = "Ok: Backend already running (tracked)"

\* C24: at most one backend process launched by this shell is alive.
C24_AtMostOneLaunchedBackend ==
    Cardinality({p \in Launched : procs[p].alive}) <= 1

====
